---- MODULE Spec2Model ----
(***************************************************************************)
(* download_wheels.py: the multi-strategy offline download driver.         *)
(*                                                                         *)
(* Python strings are modelled as sequences of one-character strings, so   *)
(* that strip, split, startswith, replace and re.sub are computed the way  *)
(* the code computes them.                                                 *)
(***************************************************************************)
EXTENDS Integers, Sequences, FiniteSets, TLC

(***************************************************************************)
(* Bounds of the model.                                                    *)
(***************************************************************************)
\* longest configured platform / version / implementation / binary-flag list
MaxList == 2
\* most lines in the requirement list of a run
MaxReqs == 2

(***************************************************************************)
(* String literals.                                                        *)
(***************************************************************************)
S_platform == <<"-", "-", "p", "l", "a", "t", "f", "o", "r", "m">>
S_python_version == <<"-", "-", "p", "y", "t", "h", "o", "n", "-", "v", "e", "r", "s", "i", "o", "n">>
S_abi_flag == <<"-", "-", "a", "b", "i">>
S_implementation == <<"-", "-", "i", "m", "p", "l", "e", "m", "e", "n", "t", "a", "t", "i", "o", "n">>
S_only_binary == <<"-", "-", "o", "n", "l", "y", "-", "b", "i", "n", "a", "r", "y", "=", ":", "a", "l", "l", ":">>
S_any == <<"a", "n", "y">>
S_win_amd64 == <<"w", "i", "n", "_", "a", "m", "d", "6", "4">>
S_none == <<"n", "o", "n", "e">>
S_cp == <<"c", "p">>
S_py == <<"p", "y">>
S_abi == <<"a", "b", "i">>
S_3_13 == <<"3", ".", "1", "3">>
S_3 == <<"3">>
S_313 == <<"3", "1", "3">>

(***************************************************************************)
(* String helpers (str.startswith, `in`, str.replace(c, '')).              *)
(***************************************************************************)
StartsWith(s, prefix) ==
    /\ Len(prefix) <= Len(s)
    /\ SubSeq(s, 1, Len(prefix)) = prefix

Contains(s, c) == \E k \in 1..Len(s) : s[k] = c

RemoveChar(s, c) == SelectSeq(s, LAMBDA x : x # c)

\* the lists appended by the iterations of a for loop, joined in order
RECURSIVE Flatten(_)
Flatten(ss) == IF ss = <<>> THEN <<>> ELSE Head(ss) \o Flatten(Tail(ss))

(***************************************************************************)
(* Strategy generation, download_package_with_deps lines 142-175.          *)
(***************************************************************************)
\* lines 147-155: the interpreter-specific ABI tag of a version token
AbiSpecific(var_python_version) ==
    IF Contains(var_python_version, ".")
    THEN S_cp \o RemoveChar(var_python_version, ".")
    ELSE IF Len(var_python_version) = 1
         THEN S_abi \o var_python_version
         ELSE S_cp \o var_python_version

\* line 157
SpecificAbis(var_python_version) == <<S_none, AbiSpecific(var_python_version)>>

\* a plausible slip: the prune is never applied
SkipCombinationNever(var_implementation, var_abi) == FALSE

\* line 163: the combinations the loop skips
SkipCombination(var_implementation, var_abi) ==
    /\ var_implementation = S_py
    /\ (StartsWith(var_abi, S_cp) \/ StartsWith(var_abi, S_abi))

\* a plausible slip: the ABI constraint is left out
StrategyWithoutAbi(var_platform, var_python_version, var_abi, var_implementation, var_binary_type) ==
    << S_platform, var_platform, S_python_version, var_python_version,
       S_implementation, var_implementation, var_binary_type >>

\* line 170
Strategy(var_platform, var_python_version, var_abi, var_implementation, var_binary_type) ==
    << S_platform, var_platform, S_python_version, var_python_version,
       S_abi_flag, var_abi, S_implementation, var_implementation, var_binary_type >>

\* lines 144-171: the nested loops
CrossProduct(platforms, versions, implementations, binary_types) ==
    Flatten([p \in 1..Len(platforms) |->
      Flatten([v \in 1..Len(versions) |->
        Flatten([a \in 1..Len(SpecificAbis(versions[v])) |->
          Flatten([i \in 1..Len(implementations) |->
            IF SkipCombination(implementations[i], SpecificAbis(versions[v])[a])
            THEN <<>>
            ELSE [b \in 1..Len(binary_types) |->
                    Strategy(platforms[p], versions[v], SpecificAbis(versions[v])[a],
                             implementations[i], binary_types[b])]])])])])

\* a plausible slip: the fallback is appended only when the cross-product is empty
BuildStrategiesFallbackIfEmpty(platforms, versions, implementations, binary_types) ==
    LET cross == CrossProduct(platforms, versions, implementations, binary_types)
    IN  IF cross = <<>> THEN << <<>> >> ELSE cross

\* lines 142-174: the cross-product, then the default-environment strategy
BuildStrategies(platforms, versions, implementations, binary_types) ==
    CrossProduct(platforms, versions, implementations, binary_types) \o << <<>> >>

(***************************************************************************)
(* More string helpers: str.strip, str.split, str.lower, re.sub, re.split. *)
(***************************************************************************)
S_ab == <<"a", "b">>
S_a_dot_b_eq_1 == <<"a", ".", "b", "=", "=", "1">>
S_pyautogui == <<"p", "y", "a", "u", "t", "o", "g", "u", "i">>
S_pyautogui_setuptools_wheel ==
    <<"p", "y", "a", "u", "t", "o", "g", "u", "i", " ",
      "s", "e", "t", "u", "p", "t", "o", "o", "l", "s", " ", "w", "h", "e", "e", "l">>

\* the characters str.strip and str.split treat as whitespace (ASCII)
Whitespace == {" ", "\t", "\n", "\r"}

RECURSIVE LStrip(_)
LStrip(s) == IF s # <<>> /\ Head(s) \in Whitespace THEN LStrip(Tail(s)) ELSE s

RECURSIVE RStrip(_)
RStrip(s) ==
    IF s # <<>> /\ s[Len(s)] \in Whitespace THEN RStrip(SubSeq(s, 1, Len(s) - 1)) ELSE s

Strip(s) == RStrip(LStrip(s))

\* the positions at which sub occurs in s
Occurrences(s, sub) ==
    {k \in 1..(Len(s) - Len(sub) + 1) : SubSeq(s, k, k + Len(sub) - 1) = sub}

HasSub(s, sub) == Occurrences(s, sub) # {}

Min(S) == CHOOSE x \in S : \A y \in S : x <= y
Max(S) == CHOOSE x \in S : \A y \in S : x >= y

\* s.split(sub, 1)[0]
BeforeFirst(s, sub) ==
    IF HasSub(s, sub) THEN SubSeq(s, 1, Min(Occurrences(s, sub)) - 1) ELSE s

\* re.split(r'[<>=!~]', s)[0]
OperatorChars == {"<", ">", "=", "!", "~"}
BeforeFirstOperator(s) ==
    LET at == {k \in 1..Len(s) : s[k] \in OperatorChars}
    IN  IF at = {} THEN s ELSE SubSeq(s, 1, Min(at) - 1)

\* s.split(): the maximal runs of non-whitespace characters
RECURSIVE SplitWords(_)
SplitWords(s) ==
    LET t == LStrip(s)
        ws == {k \in 1..Len(t) : t[k] \in Whitespace}
    IN  IF t = <<>> THEN <<>>
        ELSE IF ws = {} THEN <<t>>
        ELSE <<SubSeq(t, 1, Min(ws) - 1)>> \o SplitWords(SubSeq(t, Min(ws), Len(t)))

UpperLetters == <<"A", "B", "C", "D", "E", "F", "G", "H", "I", "J", "K", "L", "M",
                  "N", "O", "P", "Q", "R", "S", "T", "U", "V", "W", "X", "Y", "Z">>
LowerLetters == <<"a", "b", "c", "d", "e", "f", "g", "h", "i", "j", "k", "l", "m",
                  "n", "o", "p", "q", "r", "s", "t", "u", "v", "w", "x", "y", "z">>
Digits == {"0", "1", "2", "3", "4", "5", "6", "7", "8", "9"}

\* str.lower on ASCII text
LowerChar(c) ==
    IF \E k \in 1..Len(UpperLetters) : UpperLetters[k] = c
    THEN LowerLetters[CHOOSE k \in 1..Len(UpperLetters) : UpperLetters[k] = c]
    ELSE c
Lower(s) == [k \in 1..Len(s) |-> LowerChar(s[k])]

\* re.sub(r'[^a-zA-Z0-9_-]', '', s)
SafeChars ==
    {UpperLetters[k] : k \in 1..Len(UpperLetters)} \cup
    {LowerLetters[k] : k \in 1..Len(LowerLetters)} \cup Digits \cup {"_", "-"}
Sanitize(s) == SelectSeq(s, LAMBDA c : c \in SafeChars)

\* line 123
BareName(spec) == Strip(BeforeFirstOperator(spec))

\* lines 201-202: known_dependencies.get(name.lower(), package_spec)
SpecForPip(name, spec) ==
    IF Lower(name) = S_pyautogui THEN S_pyautogui_setuptools_wheel ELSE spec

(***************************************************************************)
(* Requirement loading, main lines 314-321.                                *)
(***************************************************************************)
\* a plausible slip: the inline comment is not cut off
LoadLineKeepingComment(line) ==
    LET stripped == Strip(line)
    IN  IF stripped = <<>> \/ StartsWith(stripped, <<"#">>) THEN <<>>
        ELSE IF StartsWith(stripped, <<"-">>) THEN <<>>
        ELSE <<stripped>>

\* one raw line: <<>> when the line is skipped, <<spec>> when it is kept
LoadLine(line) ==
    LET stripped == Strip(line)
        cut == IF HasSub(stripped, <<" ", "#">>)
               THEN Strip(BeforeFirst(stripped, <<" ", "#">>))
               ELSE stripped
    IN  IF stripped = <<>> \/ StartsWith(stripped, <<"#">>) THEN <<>>
        ELSE IF cut = <<>> THEN <<>>
        ELSE IF StartsWith(cut, <<"-">>) \/ StartsWith(cut, <<"-", "-">>) THEN <<>>
        ELSE <<cut>>

LoadRequirements(lines) == Flatten([k \in 1..Len(lines) |-> LoadLine(lines[k])])

(***************************************************************************)
(* State.                                                                  *)
(***************************************************************************)
VARIABLES
    pc,                 \* where main is
    exit_code,          \* the process's exit status, -1 while it runs
    setup_error,        \* which fatal setup condition was met, "none" if none
    \* configuration, lines 131-140
    var_platforms, var_python_versions, var_implementations, var_binary_types,
    DOWNLOAD_ALL_VERSIONS, COPY_FIRST_SET_TO_PARENT_DIRECTORY,
    \* files
    file_lines,         \* the lines of the requirements file
    bat_file,           \* the content of installation-instructions.bat
    \* main
    valid_package_lines, processed_count, successful_packages, failed_packages,
    pip_call_times, timing_report,
    \* download_package_with_deps
    package_spec, original_package_name_only, download_strategies, strategy_index,
    attempt, attempt_success_count, download_success, success,
    \* what happened, for the properties
    last_outcome,       \* what the latest call of run_pip_download_deps met
    last_command,       \* the arguments of the latest pip invocation
    pip_invocations,    \* how many times subprocess.run was called
    attempt_log,        \* the attempts made for the current requirement, in order
    package_log,        \* per finished requirement, what its attempts amounted to
    generations,        \* how many times the strategy list was built
    collision_warnings  \* how many warnings about a shared subdirectory were logged

config_vars == << var_platforms, var_python_versions, var_implementations, var_binary_types,
                  DOWNLOAD_ALL_VERSIONS, COPY_FIRST_SET_TO_PARENT_DIRECTORY >>
main_vars == << valid_package_lines, processed_count, successful_packages, failed_packages >>
package_vars == << package_spec, original_package_name_only, download_strategies,
                   strategy_index, attempt, attempt_success_count, download_success, success >>
observed_vars == << last_outcome, last_command, pip_invocations, attempt_log, package_log,
                    generations, collision_warnings >>

vars == << pc, exit_code, setup_error, config_vars, file_lines, bat_file, main_vars,
           pip_call_times, timing_report, package_vars, observed_vars >>

(***************************************************************************)
(* Inputs.                                                                 *)
(***************************************************************************)
SeqsUpTo(S, n) == UNION {[1..k -> S] : k \in 0..n}

PlatformPool == {S_any, S_win_amd64}
VersionPool == {S_3_13, S_3, S_313}
ImplementationPool == {S_cp, S_py}
BinaryTypePool == {S_only_binary}

\* the requirement lines of a run
RunLines == {S_ab, S_a_dot_b_eq_1}

\* the elapsed times an attempt of a run can take, in whole units
Durations == {1}

\* what one call of run_pip_download_deps can meet
PipOutcomes == {"mkdir_failed", "exit_zero", "exit_nonzero", "pip_not_found", "exception"}

BatLine(kind, spec, dir) == [kind |-> kind, spec |-> spec, dir |-> dir]
StaleLine == BatLine("stale", <<>>, <<>>)
HeaderLines == << BatLine("header", <<>>, <<>>) >>
HeaderPartial == << BatLine("header_partial", <<>>, <<>>) >>
FooterLines == << BatLine("footer", <<>>, <<>>) >>
\* a plausible slip: the block names the subdirectory where the specifier belongs
InstallBlockByDirectory(spec, dir) == << BatLine("install", dir, dir) >>

\* lines 229-231: the install command of one requirement
InstallBlock(spec, dir) == << BatLine("install", spec, dir) >>

NoReport == [present |-> FALSE, calls |-> 0, total |-> 0, min |-> 0, max |-> 0,
             mean_num |-> 0, mean_den |-> 1]
NoCommand == [dest |-> <<>>, extra_args |-> <<>>, specs |-> <<>>]

InitCommon ==
    /\ exit_code = -1
    /\ setup_error = "none"
    /\ bat_file = << StaleLine >>
    /\ valid_package_lines = <<>>
    /\ processed_count = 0
    /\ successful_packages = <<>>
    /\ failed_packages = <<>>
    /\ pip_call_times = <<>>
    /\ timing_report = NoReport
    /\ package_spec = <<>>
    /\ original_package_name_only = <<>>
    /\ download_strategies = <<>>
    /\ strategy_index = 0
    /\ attempt = 0
    /\ attempt_success_count = 0
    /\ download_success = FALSE
    /\ success = FALSE
    /\ last_outcome = "none"
    /\ last_command = NoCommand
    /\ pip_invocations = 0
    /\ attempt_log = <<>>
    /\ package_log = <<>>
    /\ generations = 0
    /\ collision_warnings = 0

\* a run of main: a short configuration, so that every strategy of every
\* requirement can be followed
Init ==
    /\ pc = "check_file"
    /\ var_platforms = << S_any >>
    /\ var_python_versions = << S_3 >>
    /\ var_implementations = << S_py >>
    /\ var_binary_types = << S_only_binary >>
    /\ DOWNLOAD_ALL_VERSIONS \in BOOLEAN
    /\ COPY_FIRST_SET_TO_PARENT_DIRECTORY \in BOOLEAN
    /\ file_lines \in SeqsUpTo(RunLines, MaxReqs)
    /\ InitCommon

(***************************************************************************)
(* main: the pre-run checks, lines 297-324.                                *)
(***************************************************************************)
\* sys.exit(1), and an exception nothing catches: the interpreter exits 1
Exit1 ==
    /\ pc' = "exited"
    /\ exit_code' = 1

KeepRunning(next_pc) ==
    /\ pc' = next_pc
    /\ UNCHANGED exit_code

\* lines 298-300: os.path.isfile(requirements_file)
CheckRequirementsFile ==
    /\ pc = "check_file"
    /\ \E isfile \in BOOLEAN :
         /\ setup_error' = IF isfile THEN setup_error ELSE "requirements_missing"
         /\ IF ~isfile THEN Exit1 ELSE KeepRunning("make_base")
    /\ UNCHANGED << config_vars, file_lines, bat_file, main_vars, pip_call_times,
                    timing_report, package_vars, observed_vars >>

\* lines 301-307: os.makedirs(download_dir, exist_ok=True)
MakeBaseDirectory ==
    /\ pc = "make_base"
    /\ \E created \in BOOLEAN :
         /\ setup_error' = IF created THEN setup_error ELSE "base_directory"
         /\ IF ~created THEN Exit1 ELSE KeepRunning("read_requirements")
    /\ UNCHANGED << config_vars, file_lines, bat_file, main_vars, pip_call_times,
                    timing_report, package_vars, observed_vars >>

\* a plausible slip: the error is logged and the run goes on with no requirement
ReadRequirementsContinuing ==
    /\ pc = "read_requirements"
    /\ \E read \in {"ok", "io_error", "decode_error"} :
         /\ setup_error' = IF read = "ok" THEN setup_error ELSE "requirements_unreadable"
         /\ valid_package_lines' = IF read = "ok" THEN LoadRequirements(file_lines) ELSE <<>>
         /\ KeepRunning("write_header")
    /\ UNCHANGED << config_vars, file_lines, bat_file, processed_count,
                    successful_packages, failed_packages, pip_call_times,
                    timing_report, package_vars, observed_vars >>

\* lines 310-324: an IOError is caught and exits 1; a line that is not UTF-8
\* raises UnicodeDecodeError, which nothing catches, and the interpreter exits 1
ReadRequirements ==
    /\ pc = "read_requirements"
    /\ \E read \in {"ok", "io_error", "decode_error"} :
         /\ setup_error' = IF read = "ok" THEN setup_error ELSE "requirements_unreadable"
         /\ IF read = "ok"
            THEN /\ valid_package_lines' = LoadRequirements(file_lines)
                 /\ KeepRunning("write_header")
            ELSE /\ Exit1
                 /\ UNCHANGED valid_package_lines
    /\ UNCHANGED << config_vars, file_lines, bat_file, processed_count,
                    successful_packages, failed_packages, pip_call_times,
                    timing_report, package_vars, observed_vars >>

\* lines 337-358: open(..., "w") truncates; an IOError is logged and the run goes on
WriteHeader ==
    /\ pc = "write_header"
    /\ \E written \in {"ok", "open_failed", "write_failed"} :
         bat_file' = CASE written = "ok" -> HeaderLines
                       [] written = "open_failed" -> bat_file
                       [] written = "write_failed" -> HeaderPartial
    /\ KeepRunning("next_package")
    /\ UNCHANGED << setup_error, config_vars, file_lines, main_vars,
                    pip_call_times, timing_report, package_vars, observed_vars >>

(***************************************************************************)
(* main's loop, lines 361-371, and download_package_with_deps.             *)
(***************************************************************************)
\* lines 361-363, then lines 123-175 of the call: the next requirement
BeginPackage ==
    /\ pc = "next_package"
    /\ processed_count < Len(valid_package_lines)
    /\ processed_count' = processed_count + 1
    /\ package_spec' = valid_package_lines[processed_count + 1]
    /\ original_package_name_only' = BareName(valid_package_lines[processed_count + 1])
    /\ download_success' = FALSE
    /\ attempt' = 0
    /\ attempt_success_count' = 0
    /\ download_strategies' = BuildStrategies(var_platforms, var_python_versions,
                                              var_implementations, var_binary_types)
    /\ generations' = generations + 1
    /\ strategy_index' = 1
    /\ pc' = "strategies"
    /\ UNCHANGED << exit_code, setup_error, config_vars, file_lines, bat_file,
                    valid_package_lines, successful_packages, failed_packages,
                    pip_call_times, timing_report, success, last_outcome,
                    last_command, pip_invocations, attempt_log, package_log,
                    collision_warnings >>

\* a plausible slip: the return code is not looked at
PipSucceededOnReturn(outcome) == outcome \in {"exit_zero", "exit_nonzero"}

\* lines 79-99: the value run_pip_download_deps returns once pip was started
PipSucceeded(outcome) == outcome = "exit_zero"

\* a plausible slip: the failure is logged and pip is run all the same
ReturnsBeforePipNever(outcome) == FALSE

\* line 56 raised: the early return of line 61, before subprocess.run and
\* before the try whose finally records the time
ReturnsBeforePip(outcome) == outcome = "mkdir_failed"

\* a plausible slip: no except clause for exceptions other than FileNotFoundError
UncaughtUnexpected(outcome) == outcome = "exception"

\* a plausible slip: no except clause for FileNotFoundError
UncaughtNotFound(outcome) == outcome = "pip_not_found"

\* lines 58, 91, 97: OSError of makedirs, FileNotFoundError and every other
\* Exception of subprocess.run are caught, so nothing leaves the call
Uncaught(outcome) == FALSE

\* a plausible slip: the copy loop is not inside a try
SideEffectUncaughtOnCopy(instruction, copy) == copy = "copy_failed"

\* lines 232 and 251: the IOError of the instruction write and every
\* Exception of the copy are caught and logged
SideEffectUncaught(instruction, copy) == FALSE

\* a plausible slip: `and` for `or`
ContinueAttemptingAnd(succeeded_before, all_versions) == ~succeeded_before /\ all_versions

\* line 193
ContinueAttempting(succeeded_before, all_versions) == ~succeeded_before \/ all_versions

\* a plausible slip: the one-time actions run on every success
IsFirstSuccessEvery(success_count) == success_count >= 1

\* line 223
IsFirstSuccess(success_count) == success_count = 1

\* line 255
BreakAfterSuccess(all_versions) == ~all_versions

\* lines 64-71
PipCommand(spec_for_pip, name, strategy) ==
    [dest |-> Sanitize(name), extra_args |-> strategy, specs |-> SplitWords(spec_for_pip)]

\* lines 191-260: one iteration of the strategy loop, given the value the two
\* tests of the continuation policy (lines 193 and 255) read
StrategyIteration(all_versions) ==
    /\ pc = "strategies"
    /\ strategy_index <= Len(download_strategies)
    /\ \E outcome \in PipOutcomes, elapsed \in Durations :
         LET strategy == download_strategies[strategy_index]
             attempted == ContinueAttempting(download_success, all_versions)
             invoked == attempted /\ ~ReturnsBeforePip(outcome)
             crashed == invoked /\ Uncaught(outcome)
             ok == invoked /\ ~crashed /\ PipSucceeded(outcome)
             count == IF ok THEN attempt_success_count + 1 ELSE attempt_success_count
             first == ok /\ IsFirstSuccess(count)
             copies == first /\ COPY_FIRST_SET_TO_PARENT_DIRECTORY
             break == ok /\ BreakAfterSuccess(all_versions)
             spec_for_pip == SpecForPip(original_package_name_only, package_spec)
         IN  \E instruction \in IF first THEN {"written", "write_failed"} ELSE {"none"},
                copy \in IF copies THEN {"copied", "source_missing", "copy_failed"}
                                   ELSE {"none"} :
             /\ attempt' = IF attempted THEN attempt + 1 ELSE attempt
             /\ success' = IF attempted /\ ~crashed THEN ok ELSE success
             /\ last_outcome' = IF attempted THEN outcome ELSE last_outcome
             /\ pip_invocations' = IF invoked THEN pip_invocations + 1 ELSE pip_invocations
             /\ last_command' =
                  IF invoked
                  THEN PipCommand(spec_for_pip, original_package_name_only, strategy)
                  ELSE last_command
             /\ pip_call_times' =
                  IF invoked THEN Append(pip_call_times, elapsed) ELSE pip_call_times
             /\ attempt_success_count' = count
             /\ download_success' = (download_success \/ ok)
             /\ bat_file' =
                  IF instruction = "written"
                  THEN bat_file \o InstallBlock(package_spec,
                                                Sanitize(original_package_name_only))
                  ELSE bat_file
             /\ attempt_log' =
                  IF attempted
                  THEN Append(attempt_log,
                              [strategy |-> strategy_index,
                               outcome |-> outcome,
                               succeeded |-> ok,
                               invoked |-> invoked,
                               instruction |-> instruction,
                               copy |-> copy])
                  ELSE attempt_log
             /\ strategy_index' = strategy_index + 1
             /\ IF crashed \/ SideEffectUncaught(instruction, copy)
                THEN Exit1
                ELSE KeepRunning(IF break \/ strategy_index = Len(download_strategies)
                                 THEN "package_return" ELSE "strategies")
    /\ UNCHANGED << setup_error, config_vars, file_lines, main_vars,
                    timing_report, package_spec, original_package_name_only,
                    download_strategies, package_log, generations, collision_warnings >>

\* a plausible slip: the policy is read as True whatever was configured
AttemptStrategyIgnoringPolicy == StrategyIteration(TRUE)

\* lines 191-260, with DOWNLOAD_ALL_VERSIONS of line 139
AttemptStrategy == StrategyIteration(DOWNLOAD_ALL_VERSIONS)

\* what the attempts of one requirement amounted to
PackageSummary(log) ==
    [attempts |-> Len(log),
     successes |-> Cardinality({k \in 1..Len(log) : log[k].outcome = "exit_zero"}),
     instruction |->
        IF \E k \in 1..Len(log) : log[k].instruction = "written" THEN "written"
        ELSE IF \E k \in 1..Len(log) : log[k].instruction = "write_failed"
             THEN "write_failed" ELSE "none"]

\* lines 367-368
SuccessfulAfter(list, returned, spec) == IF returned THEN Append(list, spec) ELSE list

\* a plausible slip: the else is lost and every requirement is listed as failed
FailedAfterAlways(list, returned, spec) == Append(list, spec)

\* lines 369-370
FailedAfter(list, returned, spec) == IF returned THEN list ELSE Append(list, spec)

\* line 269 and lines 367-370: the call returns download_success, its locals
\* are gone, and the requirement joins one of the two lists
ReturnPackage ==
    /\ pc = "package_return"
    /\ successful_packages' = SuccessfulAfter(successful_packages, download_success, package_spec)
    /\ failed_packages' = FailedAfter(failed_packages, download_success, package_spec)
    /\ package_log' = Append(package_log, PackageSummary(attempt_log))
    /\ original_package_name_only' = <<>>
    /\ download_strategies' = <<>>
    /\ strategy_index' = 0
    /\ attempt' = 0
    /\ attempt_success_count' = 0
    /\ download_success' = FALSE
    /\ success' = FALSE
    /\ last_outcome' = "none"
    /\ attempt_log' = <<>>
    /\ KeepRunning("next_package")
    /\ UNCHANGED << setup_error, config_vars, file_lines, bat_file,
                    valid_package_lines, processed_count, pip_call_times,
                    timing_report, package_spec, last_command,
                    pip_invocations, generations, collision_warnings >>

(***************************************************************************)
(* main after the loop, lines 373-431.                                     *)
(***************************************************************************)
\* lines 374-388: open(..., "a"); an IOError is logged and the run goes on
WriteFooter ==
    /\ pc = "next_package"
    /\ processed_count = Len(valid_package_lines)
    /\ \E written \in BOOLEAN :
         bat_file' = IF written THEN bat_file \o FooterLines ELSE bat_file
    /\ pc' = "summary"
    /\ UNCHANGED << exit_code, setup_error, config_vars, file_lines, main_vars,
                    pip_call_times, timing_report, package_vars, observed_vars >>

RECURSIVE Sum(_)
Sum(s) == IF s = <<>> THEN 0 ELSE Head(s) + Sum(Tail(s))

Range(s) == {s[k] : k \in 1..Len(s)}

\* a plausible slip: the middle of the extremes for the mean
TimingReportMidrange(times) ==
    IF times # <<>>
    THEN [present |-> TRUE, calls |-> Len(times), total |-> Sum(times),
          min |-> Min(Range(times)), max |-> Max(Range(times)),
          mean_num |-> Min(Range(times)) + Max(Range(times)), mean_den |-> 2]
    ELSE NoReport

\* lines 407-420: min_time, max_time, total_time_pip and avg_time, the last
\* as the exact quotient statistics.mean computes
TimingReport(times) ==
    IF times # <<>>
    THEN [present |-> TRUE, calls |-> Len(times), total |-> Sum(times),
          min |-> Min(Range(times)), max |-> Max(Range(times)),
          mean_num |-> Sum(times), mean_den |-> Len(times)]
    ELSE NoReport

\* a plausible slip: the exit status reports failed requirements
SummaryFailingExit ==
    /\ pc = "summary"
    /\ timing_report' = TimingReport(pip_call_times)
    /\ pc' = "done"
    /\ exit_code' = IF failed_packages # <<>> THEN 1 ELSE 0
    /\ UNCHANGED << setup_error, config_vars, file_lines, bat_file, main_vars,
                    pip_call_times, package_vars, observed_vars >>

\* lines 391-431, and the return of main: exit status 0
Summary ==
    /\ pc = "summary"
    /\ timing_report' = TimingReport(pip_call_times)
    /\ pc' = "done"
    /\ exit_code' = 0
    /\ UNCHANGED << setup_error, config_vars, file_lines, bat_file, main_vars,
                    pip_call_times, package_vars, observed_vars >>

Next ==
    \/ CheckRequirementsFile
    \/ MakeBaseDirectory
    \/ ReadRequirements
    \/ WriteHeader
    \/ BeginPackage
    \/ AttemptStrategy
    \/ ReturnPackage
    \/ WriteFooter
    \/ Summary

Spec == Init /\ [][Next]_vars

\* the runs with the promotion copy off, as line 140 sets it
InitNoPromotion == Init /\ ~COPY_FIRST_SET_TO_PARENT_DIRECTORY

\* main is one sequential thread: whatever step is enabled is taken
FairSpec == InitNoPromotion /\ [][Next]_vars /\ WF_vars(Next)

(***************************************************************************)
(* The strategy generator on its own: every configuration of up to MaxList *)
(* platforms, version tokens, implementations and binary flags.            *)
(***************************************************************************)
InitGen ==
    /\ pc = "generate"
    /\ var_platforms \in SeqsUpTo(PlatformPool, MaxList)
    /\ var_python_versions \in SeqsUpTo(VersionPool, MaxList)
    /\ var_implementations \in SeqsUpTo(ImplementationPool, MaxList)
    /\ var_binary_types \in SeqsUpTo(BinaryTypePool, MaxList)
    /\ DOWNLOAD_ALL_VERSIONS = TRUE
    /\ COPY_FIRST_SET_TO_PARENT_DIRECTORY = FALSE
    /\ file_lines = <<>>
    /\ InitCommon

\* lines 142-175
GenerateStrategies ==
    /\ pc = "generate"
    /\ download_strategies' = BuildStrategies(var_platforms, var_python_versions,
                                              var_implementations, var_binary_types)
    /\ generations' = generations + 1
    /\ pc' = "generated"
    /\ UNCHANGED << exit_code, setup_error, config_vars, file_lines, bat_file, main_vars,
                    pip_call_times, timing_report, package_spec,
                    original_package_name_only, strategy_index, attempt,
                    attempt_success_count, download_success, success, last_outcome,
                    last_command, pip_invocations, attempt_log, package_log,
                    collision_warnings >>

NextGen == GenerateStrategies

SpecGen == InitGen /\ [][NextGen]_vars

(***************************************************************************)
(* Properties.                                                             *)
(***************************************************************************)
EmptyStrategyAt(strategies) == {k \in 1..Len(strategies) : strategies[k] = <<>>}

\* C1: whatever the configured lists are, empty ones included, the generated
\* sequence has at least one element, its last element is the empty
\* constraint, and the empty constraint occurs in it exactly once.
C1_FallbackLastAndOnce ==
    pc = "generated" =>
        /\ Len(download_strategies) >= 1
        /\ download_strategies[Len(download_strategies)] = <<>>
        /\ Cardinality(EmptyStrategyAt(download_strategies)) = 1

\* C1 witness: a configuration with an empty list beside non-empty ones, for
\* which the fallback is the only strategy
C1_Witness ==
    /\ pc = "generated"
    /\ var_binary_types = <<>>
    /\ var_platforms # <<>> /\ var_python_versions # <<>> /\ var_implementations # <<>>
    /\ download_strategies = << <<>> >>

\* an ABI tag derived from a version token: it starts with 'cp' or 'abi'
IsInterpreterSpecificAbi(abi) == StartsWith(abi, S_cp) \/ StartsWith(abi, S_abi)

\* C2: no generated strategy pairs the implementation 'py' with an ABI tag
\* that starts with 'cp' or 'abi', and every other combination of a configured
\* platform, version, ABI candidate of that version, implementation and
\* binary flag is one of the generated strategies.
C2_PruneExactlyInvalidPairs ==
    pc = "generated" =>
        /\ \A k \in 1..Len(download_strategies) :
             download_strategies[k] # <<>> =>
                ~(/\ download_strategies[k][8] = S_py
                  /\ IsInterpreterSpecificAbi(download_strategies[k][6]))
        /\ \A p \in Range(var_platforms), v \in Range(var_python_versions),
              i \in Range(var_implementations), b \in Range(var_binary_types) :
             \A a \in {S_none, AbiSpecific(v)} :
                ~(i = S_py /\ IsInterpreterSpecificAbi(a)) =>
                    Strategy(p, v, a, i, b) \in Range(download_strategies)

\* C2 witness: both implementations configured; the 'cp' strategy with the
\* derived tag abi3 is generated, and so is the 'py' strategy with 'none'
C2_Witness ==
    /\ pc = "generated"
    /\ var_implementations = << S_cp, S_py >>
    /\ Strategy(S_any, S_3, S_abi \o S_3, S_cp, S_only_binary) \in Range(download_strategies)
    /\ Strategy(S_any, S_3, S_none, S_py, S_only_binary) \in Range(download_strategies)
    /\ Len(download_strategies) = 4

\* the attempts of the current requirement that pip ended with exit status 0
SucceededAt(log) == {k \in 1..Len(log) : log[k].outcome = "exit_zero"}
InstructionAt(log) == {k \in 1..Len(log) : log[k].instruction # "none"}
CopyAt(log) == {k \in 1..Len(log) : log[k].copy # "none"}

\* C3: with DOWNLOAD_ALL_VERSIONS off, a successful attempt is the last
\* attempt made for its requirement, and the install instruction and the
\* promotion copy are each executed at most once for the requirement.
C3_StopOnFirstSuccess ==
    ~DOWNLOAD_ALL_VERSIONS =>
        /\ \A k \in SucceededAt(attempt_log) : k = Len(attempt_log)
        /\ Cardinality(InstructionAt(attempt_log)) <= 1
        /\ Cardinality(CopyAt(attempt_log)) <= 1

\* C3 witness: the first of two strategies succeeded, its side effects ran,
\* and the call returns with the second strategy never attempted
C3_Witness ==
    /\ ~DOWNLOAD_ALL_VERSIONS
    /\ pc = "package_return"
    /\ Len(download_strategies) = 2
    /\ Len(attempt_log) = 1
    /\ attempt_log[1].outcome = "exit_zero"
    /\ attempt_log[1].instruction = "written"
    /\ attempt_log[1].copy = "copied"

\* C4: with DOWNLOAD_ALL_VERSIONS on, the strategies are attempted in order
\* and all of them by the time the call returns, whatever succeeded before;
\* the install instruction is executed on the first successful attempt and on
\* no other, and so is the promotion copy when the promotion flag is set.
C4_ExhaustiveOneTimeEffects ==
    DOWNLOAD_ALL_VERSIONS =>
        /\ \A k \in 1..Len(attempt_log) : attempt_log[k].strategy = k
        /\ pc = "package_return" => Len(attempt_log) = Len(download_strategies)
        /\ \A k \in 1..Len(attempt_log) :
             /\ k \in InstructionAt(attempt_log) <=>
                   (k \in SucceededAt(attempt_log) /\ k = Min(SucceededAt(attempt_log)))
             /\ k \in CopyAt(attempt_log) <=>
                   /\ COPY_FIRST_SET_TO_PARENT_DIRECTORY
                   /\ k \in SucceededAt(attempt_log)
                   /\ k = Min(SucceededAt(attempt_log))

\* C4 witness: both strategies succeeded; the side effects ran on the first
\* success and not on the second
C4_Witness ==
    /\ DOWNLOAD_ALL_VERSIONS
    /\ COPY_FIRST_SET_TO_PARENT_DIRECTORY
    /\ pc = "package_return"
    /\ Len(attempt_log) = 2
    /\ SucceededAt(attempt_log) = {1, 2}
    /\ attempt_log[1].instruction = "written" /\ attempt_log[1].copy = "copied"
    /\ attempt_log[2].instruction = "none" /\ attempt_log[2].copy = "none"

\* C5: when the call returns and none of its attempts ended with exit status
\* 0, it returns failure, and it made exactly one attempt per strategy, in
\* order, under either continuation policy.
C5_AllFailedAttemptsEveryStrategy ==
    (pc = "package_return" /\ SucceededAt(attempt_log) = {}) =>
        /\ ~download_success
        /\ attempt = Len(download_strategies)
        /\ Len(attempt_log) = Len(download_strategies)
        /\ \A k \in 1..Len(attempt_log) : attempt_log[k].strategy = k

\* C5 witness: two strategies failed for different causes and the call
\* returns failure
C5_Witness ==
    /\ pc = "package_return"
    /\ ~DOWNLOAD_ALL_VERSIONS
    /\ Len(attempt_log) = 2
    /\ attempt_log[1].outcome = "mkdir_failed"
    /\ attempt_log[2].outcome = "pip_not_found"
    /\ ~download_success

\* C6: download_success holds exactly when attempt_success_count >= 1, and
\* during the loop and at the return it holds exactly when some attempt of
\* the requirement ended with exit status 0.
C6_SuccessIffSomeAttemptSucceeded ==
    /\ download_success <=> attempt_success_count >= 1
    /\ pc \in {"strategies", "package_return"} =>
          (download_success <=> SucceededAt(attempt_log) # {})
    /\ attempt_success_count = Cardinality(SucceededAt(attempt_log))

\* C6 witness: a failed attempt, then a successful one, and the call returns true
C6_Witness ==
    /\ pc = "package_return"
    /\ Len(attempt_log) = 2
    /\ attempt_log[1].outcome = "exit_nonzero"
    /\ attempt_log[2].outcome = "exit_zero"
    /\ download_success

\* the attempts made so far, over all requirements
AttemptsMade ==
    Sum([i \in 1..Len(package_log) |-> package_log[i].attempts]) + Len(attempt_log)

\* C7: the timing series has one entry per attempt made, whatever the
\* attempt's outcome.
C7_EveryAttemptTimed == Len(pip_call_times) = AttemptsMade

\* C8: a finished process has a nonzero exit status exactly when a fatal
\* setup condition was met (requirement list missing or unreadable, base
\* directory not created); a run that met one has exited, and a run that
\* reached its end exits 0.
C8_NonzeroExitIffSetupError ==
    /\ pc \in {"exited", "done"} => (exit_code # 0 <=> setup_error # "none")
    /\ pc = "done" => exit_code = 0
    /\ setup_error # "none" => pc = "exited"

\* C8 witness: every requirement failed, neither the header nor the footer
\* could be written, and the process exits 0
C8_Witness ==
    /\ pc = "done"
    /\ exit_code = 0
    /\ failed_packages # <<>>
    /\ successful_packages = <<>>
    /\ bat_file = << StaleLine >>

\* C9: once the requirement list is read and the base directory exists, the
\* run reaches the end of the summary.
C9_ReachesSummary == (pc = "write_header") ~> (pc = "done")

\* C9 witness: the summary is reached although every requirement failed on
\* every strategy
C9_Witness ==
    /\ pc = "done"
    /\ timing_report.present
    /\ Len(valid_package_lines) = MaxReqs
    /\ failed_packages = valid_package_lines

\* the elements of s at the positions in idx, in order
RECURSIVE Pick(_, _)
Pick(s, idx) ==
    IF idx = {} THEN <<>>
    ELSE Pick(s, idx \ {Max(idx)}) \o << s[Max(idx)] >>

\* C10: the succeeded list is the finished requirements with at least one
\* successful attempt, in input order, the failed list is the other finished
\* requirements, in input order, and after the loop every requirement is
\* finished and processed_count is their number.
C10_ListsPartitionRequirements ==
    LET n == Len(package_log)
        won == {i \in 1..n : package_log[i].successes >= 1}
    IN  /\ n <= Len(valid_package_lines)
        /\ successful_packages = Pick(valid_package_lines, won)
        /\ failed_packages = Pick(valid_package_lines, (1..n) \ won)
        /\ Len(successful_packages) + Len(failed_packages) = n
        /\ pc \in {"summary", "done"} =>
              n = Len(valid_package_lines) /\ processed_count = n

\* C10 witness: the same requirement twice; its first occurrence failed and
\* its second succeeded
C10_Witness ==
    /\ pc = "done"
    /\ valid_package_lines = << S_ab, S_ab >>
    /\ package_log[1].successes = 0
    /\ package_log[2].successes >= 1
    /\ successful_packages = << S_ab >>
    /\ failed_packages = << S_ab >>

(***************************************************************************)
(* The requirement loader on its own: every list of up to MaxLines lines   *)
(* drawn from specifiers, blank lines, comments, inline comments, options. *)
(***************************************************************************)
\* most lines in a requirement list given to the loader
MaxLines == 5

S_requests_line ==
    <<"r", "e", "q", "u", "e", "s", "t", "s", "=", "=", "2", ".", "3", "1", ".", "0", "\n">>
S_blank_line ==
    <<"\n">>
S_comment_line ==
    <<"#", " ", "a", " ", "c", "o", "m", "m", "e", "n", "t", "\n">>
S_option_line ==
    <<"-", "r", " ", "o", "t", "h", "e", "r", ".", "t", "x", "t", "\n">>
S_flask ==
    <<"f", "l", "a", "s", "k">>
S_inline_comment_line ==
    <<" ", " ", "a", "b", " ", "#", " ", "c", "\n">>
S_hash_in_word_line ==
    <<"a", "b", "#", "c", "\n">>
S_requests ==
    <<"r", "e", "q", "u", "e", "s", "t", "s", "=", "=", "2", ".", "3", "1", ".", "0">>

LinePool == {S_requests_line, S_blank_line, S_comment_line, S_option_line, S_flask,
             S_inline_comment_line, S_hash_in_word_line}

InitLoad ==
    /\ pc = "read_requirements"
    /\ var_platforms = << S_any >>
    /\ var_python_versions = << S_3 >>
    /\ var_implementations = << S_py >>
    /\ var_binary_types = << S_only_binary >>
    /\ DOWNLOAD_ALL_VERSIONS = TRUE
    /\ COPY_FIRST_SET_TO_PARENT_DIRECTORY = FALSE
    /\ file_lines \in SeqsUpTo(LinePool, MaxLines)
    /\ InitCommon

NextLoad == ReadRequirements

SpecLoad == InitLoad /\ [][NextLoad]_vars

\* a line as the claim describes it: trimmed, then cut at the first ' #' and
\* trimmed again
TruncatedLine(line) == Strip(BeforeFirst(Strip(line), <<" ", "#">>))

KeptLine(line) ==
    /\ Strip(line) # <<>>
    /\ Head(Strip(line)) # "#"
    /\ TruncatedLine(line) # <<>>
    /\ Head(TruncatedLine(line)) # "-"

RECURSIVE ExpectedSpecs(_)
ExpectedSpecs(lines) ==
    IF lines = <<>> THEN <<>>
    ELSE (IF KeptLine(Head(lines)) THEN << TruncatedLine(Head(lines)) >> ELSE <<>>)
         \o ExpectedSpecs(Tail(lines))

ExampleList ==
    << S_requests_line, S_blank_line, S_comment_line, S_option_line, S_flask >>

\* C11: the loader yields, in file order, exactly the lines that are
\* non-empty after trimming, do not start with '#', are non-empty after the
\* cut at the first ' #' and do not start with '-', each with its inline
\* comment removed; the list of a specifier, a blank line, a comment, an
\* option line and a second specifier yields the two specifiers in order.
C11_LoaderYieldsValidSpecifiers ==
    pc = "write_header" =>
        /\ valid_package_lines = ExpectedSpecs(file_lines)
        /\ file_lines = ExampleList => valid_package_lines = << S_requests, S_flask >>

\* C11 witness: the example list was loaded
C11_Witness ==
    /\ pc = "write_header"
    /\ file_lines = ExampleList
    /\ valid_package_lines = << S_requests, S_flask >>

IsInstallLine(line) == line.kind = "install"

\* the requirement specifiers of the install blocks of the artifact, in order
InstallSpecs(file) ==
    LET blocks == SelectSeq(file, IsInstallLine)
    IN  [k \in 1..Len(blocks) |-> blocks[k].spec]

\* C12: at the end of a run in which no instruction write failed, the
\* install blocks of the artifact are, in input order, one block for each
\* requirement occurrence with at least one successful attempt and none for
\* a requirement whose attempts all failed, under either continuation policy.
C12_OneBlockPerSucceededRequirement ==
    LET n == Len(package_log)
        won == {i \in 1..n : package_log[i].successes >= 1}
    IN  (/\ pc \in {"summary", "done"}
         /\ \A i \in 1..n : package_log[i].instruction # "write_failed")
        => InstallSpecs(bat_file) = Pick(valid_package_lines, won)

\* C12 witness: the first requirement failed on every strategy, the second
\* succeeded, and the artifact holds exactly one block, for the second
C12_Witness ==
    /\ pc = "done"
    /\ valid_package_lines = << S_ab, S_a_dot_b_eq_1 >>
    /\ failed_packages = << S_ab >>
    /\ successful_packages = << S_a_dot_b_eq_1 >>
    /\ InstallSpecs(bat_file) = << S_a_dot_b_eq_1 >>

\* the pairs of finished requirements with different bare names and one
\* destination subdirectory, the later of which had artifacts downloaded
CollidingPairs ==
    LET n == Len(package_log)
    IN  {pair \in (1..n) \X (1..n) :
           /\ pair[1] < pair[2]
           /\ BareName(valid_package_lines[pair[1]]) # BareName(valid_package_lines[pair[2]])
           /\ Sanitize(BareName(valid_package_lines[pair[1]])) =
              Sanitize(BareName(valid_package_lines[pair[2]]))
           /\ package_log[pair[2]].successes >= 1}

\* C13: whenever two requirements with different names share a sanitized
\* destination subdirectory and the second one's artifacts were downloaded
\* into it, at least one collision warning has been emitted.
C13_CollisionWarned == CollidingPairs # {} => collision_warnings >= 1

\* the sequence lines 142-174 build from the configuration of a run
RunStrategies ==
    << << S_platform, S_any, S_python_version, S_3, S_abi_flag, S_none,
          S_implementation, S_py, S_only_binary >>,
       <<>> >>

MaxTimes == 4

\* elapsed times, in ticks of the clock
StatDurations == {1, 2, 4}

Copies(n, x) == [k \in 1..n |-> x]

InitStats ==
    \E times \in SeqsUpTo(StatDurations, MaxTimes) :
       LET n == Len(times)
       IN  /\ pc = "summary"
           /\ exit_code = -1
           /\ setup_error = "none"
           /\ var_platforms = << S_any >>
           /\ var_python_versions = << S_3 >>
           /\ var_implementations = << S_py >>
           /\ var_binary_types = << S_only_binary >>
           /\ DOWNLOAD_ALL_VERSIONS = FALSE
           /\ COPY_FIRST_SET_TO_PARENT_DIRECTORY = FALSE
           /\ file_lines = Copies(n, S_ab)
           /\ valid_package_lines = Copies(n, S_ab)
           /\ processed_count = n
           /\ successful_packages = Copies(n, S_ab)
           /\ failed_packages = <<>>
           /\ bat_file = HeaderLines \o Copies(n, InstallBlock(S_ab, S_ab)[1]) \o FooterLines
           /\ pip_call_times = times
           /\ timing_report = NoReport
           /\ package_spec = IF n = 0 THEN <<>> ELSE S_ab
           /\ original_package_name_only = <<>>
           /\ download_strategies = <<>>
           /\ strategy_index = 0
           /\ attempt = 0
           /\ attempt_success_count = 0
           /\ download_success = FALSE
           /\ success = FALSE
           /\ last_outcome = "none"
           /\ last_command =
                IF n = 0 THEN NoCommand
                ELSE PipCommand(S_ab, S_ab,
                                BuildStrategies(<< S_any >>, << S_3 >>, << S_py >>,
                                                << S_only_binary >>)[1])
           /\ pip_invocations = n
           /\ attempt_log = <<>>
           /\ package_log = Copies(n, [attempts |-> 1, successes |-> 1,
                                       instruction |-> "written"])
           /\ generations = n
           /\ collision_warnings = 0

NextStats == Summary

SpecStats == InitStats /\ [][NextStats]_vars

\* C15: min_time, max_time, avg_time and total_time_pip, the values the
\* summary prints, are the minimum, the maximum, the sum divided by N and
\* the sum of the N >= 1 recorded durations; with no duration recorded the
\* statistics are absent and nothing is divided.  (avg_time is the rational
\* mean_num / mean_den.)
C15_TimingStatistics ==
    pc = "done" =>
        IF pip_call_times = <<>>
        THEN timing_report = NoReport /\ ~timing_report.present
        ELSE /\ timing_report.present
             /\ timing_report.calls = Len(pip_call_times)
             /\ timing_report.min \in Range(pip_call_times)
             /\ \A x \in Range(pip_call_times) : timing_report.min <= x
             /\ timing_report.max \in Range(pip_call_times)
             /\ \A x \in Range(pip_call_times) : timing_report.max >= x
             /\ timing_report.total = Sum(pip_call_times)
             /\ timing_report.mean_den > 0
             /\ timing_report.mean_num * Len(pip_call_times) =
                Sum(pip_call_times) * timing_report.mean_den

\* C15 witness: three durations whose mean is not the middle of the extremes
C15_Witness ==
    /\ pc = "done"
    /\ pip_call_times = << 1, 2, 4 >>
    /\ timing_report.present
    /\ timing_report.mean_num * 3 = 7 * timing_report.mean_den

\* C16: an attempt whose subdirectory could not be created is failed, pip
\* was not invoked for it, the run is not ended by it, and when it was not
\* the last strategy the call does not return before a later strategy was
\* attempted.
C16_SubdirectoryFailureSkipsPipOnly ==
    \A k \in 1..Len(attempt_log) :
        attempt_log[k].outcome = "mkdir_failed" =>
            /\ ~attempt_log[k].succeeded
            /\ ~attempt_log[k].invoked
            /\ pc # "exited"
            /\ (pc = "package_return" /\ k < Len(download_strategies))
                  => Len(attempt_log) > k

\* C16 witness: the subdirectory could not be created on the first attempt
\* and could on the second, for which pip ran
C16_Witness ==
    /\ pc = "package_return"
    /\ Len(attempt_log) = 2
    /\ attempt_log[1].outcome = "mkdir_failed"
    /\ attempt_log[2].invoked
    /\ attempt_log[2].succeeded
    /\ pip_invocations = 1

\* C17: an attempt succeeded if and only if pip ran and exited with status
\* zero; after a nonzero exit, a missing pip or any other exception of the
\* invocation the attempt is failed, the run has not ended, and when it was
\* not the last strategy the call does not return before the next strategy
\* was attempted.
C17_SuccessIffExitZero ==
    \A k \in 1..Len(attempt_log) :
        /\ attempt_log[k].succeeded <=>
              (attempt_log[k].invoked /\ attempt_log[k].outcome = "exit_zero")
        /\ attempt_log[k].outcome \in {"exit_nonzero", "pip_not_found", "exception"} =>
              /\ ~attempt_log[k].succeeded
              /\ pc # "exited"
              /\ (pc = "package_return" /\ k < Len(download_strategies))
                    => Len(attempt_log) > k
        /\ (k = Len(attempt_log) /\ pc \in {"strategies", "package_return"})
              => success = attempt_log[k].succeeded

\* C17 witness: pip was missing on the first attempt and an exception was
\* raised on the second; both failed and the call returns failure
C17_Witness ==
    /\ pc = "package_return"
    /\ Len(attempt_log) = 2
    /\ attempt_log[1].outcome = "pip_not_found"
    /\ attempt_log[2].outcome = "exception"
    /\ ~download_success

SideEffectFailedAt(log) ==
    {k \in 1..Len(log) : log[k].instruction = "write_failed" \/ log[k].copy = "copy_failed"}

C18_State ==
    /\ \A k \in SideEffectFailedAt(attempt_log) :
          /\ attempt_log[k].succeeded
          /\ pc # "exited"
          /\ download_success
          /\ \A j \in (k + 1)..Len(attempt_log) :
                attempt_log[j].instruction = "none" /\ attempt_log[j].copy = "none"
          /\ ~DOWNLOAD_ALL_VERSIONS => k = Len(attempt_log)
          /\ (DOWNLOAD_ALL_VERSIONS /\ pc = "package_return")
                => Len(attempt_log) = Len(download_strategies)
    /\ \A i \in 1..Len(package_log) :
          package_log[i].instruction = "write_failed" => package_log[i].successes >= 1

C18_Return ==
    (pc = "package_return" /\ SideEffectFailedAt(attempt_log) # {})
       => /\ successful_packages' = Append(successful_packages, package_spec)
          /\ failed_packages' = failed_packages

\* C18: when the instruction write or the promotion copy of a first success
\* fails, the attempt is still a success, the call goes on as the
\* continuation policy says and returns success, the requirement joins the
\* succeeded list, and no later success of the requirement runs the failed
\* side effect again.
C18_SideEffectFailureKeepsSuccess == []C18_State /\ [][C18_Return]_vars

\* C18 witness: under the exhaustive policy the first success lost both its
\* instruction write and its copy, a second success followed without side
\* effects, and the call returns success
C18_Witness ==
    /\ pc = "package_return"
    /\ DOWNLOAD_ALL_VERSIONS
    /\ Len(attempt_log) = 2
    /\ attempt_log[1].instruction = "write_failed"
    /\ attempt_log[1].copy = "copy_failed"
    /\ attempt_log[2].succeeded
    /\ attempt_log[2].instruction = "none"
    /\ download_success

\* C19: once a fatal setup condition was met the run has exited with status
\* 1, pip was never invoked, no duration was recorded, both lists are empty
\* and the instruction file is as it was before the run.
C19_AbortLeavesNoTrace ==
    setup_error # "none" =>
        /\ pc = "exited"
        /\ exit_code = 1
        /\ pip_invocations = 0
        /\ pip_call_times = <<>>
        /\ successful_packages = <<>>
        /\ failed_packages = <<>>
        /\ processed_count = 0
        /\ bat_file = << StaleLine >>

\* C19 witness: the requirement list could not be read
C19_Witness ==
    /\ pc = "exited"
    /\ setup_error = "requirements_unreadable"
    /\ file_lines # <<>>
    /\ bat_file = << StaleLine >>

\* C20: at the summary the instruction file is the header, then install
\* blocks of this run's requirements only, then the footer.
C20_ArtifactWrittenFresh ==
    pc \in {"summary", "done"} =>
        /\ Len(bat_file) >= 2
        /\ << bat_file[1] >> = HeaderLines
        /\ << bat_file[Len(bat_file)] >> = FooterLines
        /\ \A k \in 2..(Len(bat_file) - 1) :
              /\ bat_file[k].kind = "install"
              /\ bat_file[k].spec \in Range(valid_package_lines)

(***************************************************************************)
(* Runs of main, configured as shipped, over requirements whose names and  *)
(* forms matter to the pip command: a name of the override table in mixed  *)
(* case with a version, a specifier with spaces around its operator, and a *)
(* name that sanitizing changes.                                           *)
(***************************************************************************)
\* most requirements in such a run
MaxNamed == 2

S_PyAutoGUI_pinned ==
    <<"P", "y", "A", "u", "t", "o", "G", "U", "I", "=", "=", "0", ".", "9", ".", "5", "4">>
S_ab_spaced ==
    <<"a", "b", " ", ">", "=", " ", "1">>
S_setuptools ==
    <<"s", "e", "t", "u", "p", "t", "o", "o", "l", "s">>
S_wheel ==
    <<"w", "h", "e", "e", "l">>

NamedLines == {S_PyAutoGUI_pinned, S_ab_spaced, S_a_dot_b_eq_1}

InitNamed ==
    /\ pc = "check_file"
    /\ var_platforms = << S_any >>
    /\ var_python_versions = << S_3 >>
    /\ var_implementations = << S_py >>
    /\ var_binary_types = << S_only_binary >>
    /\ DOWNLOAD_ALL_VERSIONS = TRUE
    /\ COPY_FIRST_SET_TO_PARENT_DIRECTORY = FALSE
    /\ file_lines \in SeqsUpTo(NamedLines, MaxNamed)
    /\ InitCommon

SpecNamed == InitNamed /\ [][Next]_vars

\* the requirement arguments the claim gives the pip command for a requirement
ClaimedSpecifier(spec) ==
    IF Lower(BareName(spec)) = S_pyautogui
    THEN << S_pyautogui, S_setuptools, S_wheel >>
    ELSE << spec >>

\* C21: the pip command of every attempt carries the original requirement
\* string, or the three specifiers of the override table when the bare name
\* in lower case is pyautogui, and its destination is the subdirectory named
\* by the sanitized bare name; every install block and every entry of the
\* succeeded and failed lists is an original requirement string, the block
\* naming the subdirectory of its bare name.
C21_OriginalSpecifierPassedAndRecorded ==
    /\ (/\ pc \in {"strategies", "package_return"}
        /\ attempt_log # <<>>
        /\ attempt_log[Len(attempt_log)].invoked)
          => /\ last_command.specs = ClaimedSpecifier(package_spec)
             /\ last_command.dest = Sanitize(BareName(package_spec))
    /\ \A k \in 1..Len(bat_file) :
          bat_file[k].kind = "install" =>
             /\ bat_file[k].spec \in Range(valid_package_lines)
             /\ bat_file[k].dir = Sanitize(BareName(bat_file[k].spec))
    /\ Range(successful_packages) \cup Range(failed_packages) \subseteq
          Range(valid_package_lines)

====
